---- MODULE Spec2Model ----
(***************************************************************************)
(* ping_subnets: main() validates two subnets, expands each into its host *)
(* addresses, pings both address lists through two thread pools (one per  *)
(* subnet, each bounded by max_workers) and reports the positions whose   *)
(* reachability differs.  Source: src/ping_subnets/main.py.               *)
(***************************************************************************)
EXTENDS Integers, Sequences, FiniteSets, TLC

\* ---------------------------------------------------------------- constants
\* main.py:26
CIDR == 30
\* main.py:246, ThreadPoolExecutor(max_workers=10) of ping_subnet
max_workers == 10

\* ------------------------------------------------------------------- bounds
\* retry arguments handed to main range over MinRetryArg..MaxRetryArg
MaxRetryArg == 4
\* longest address list handed directly to ping_subnet (SpecPool)
MaxPoolIps == 11

MinRetryArg == 0 - 1

\* ------------------------------------------------------------------- inputs
\* A subnet argument "o1.o2.o3.o4/p" is the record of its dotted fields and
\* its optional prefix; a string without "/p" has hasPrefix = FALSE.
SubnetArg(o, has, p) == [octets |-> o, hasPrefix |-> has, prefix |-> p]

SubnetA == SubnetArg(<<10, 0, 0, 0>>, TRUE, 30)
SubnetB == SubnetArg(<<10, 0, 0, 4>>, TRUE, 30)
Subnet24 == SubnetArg(<<10, 0, 0, 0>>, TRUE, 24)
SubnetHostBits == SubnetArg(<<10, 0, 0, 1>>, TRUE, 30)
SubnetNoPrefix == SubnetArg(<<10, 0, 0, 0>>, FALSE, 0)
SubnetBadOctet == SubnetArg(<<10, 0, 0, 256>>, TRUE, 30)

SubnetArgs ==
    {SubnetA, SubnetB, Subnet24, SubnetHostBits, SubnetNoPrefix, SubnetBadOctet}

IgnoreArgs == {<<>>, <<1>>, <<2, 256>>}

RetryArgs == MinRetryArg..MaxRetryArg

Range(f) == {f[i] : i \in DOMAIN f}

\* ----------------------------------------------------- ipaddress.IPv4Network
\* the 32-bit value of a dotted quad
AddrInt(o) == ((o[1] * 256 + o[2]) * 256 + o[3]) * 256 + o[4]

\* the address and prefix parse (AddressValueError / NetmaskValueError otherwise)
IsParsable(s) ==
    /\ Len(s.octets) = 4
    /\ \A i \in 1..Len(s.octets) : s.octets[i] \in 0..255
    /\ s.hasPrefix => s.prefix \in 0..32

\* a string without a prefix is a /32 network
prefixlen(s) == IF s.hasPrefix THEN s.prefix ELSE 32

HostBits(s) == AddrInt(s.octets) % (2 ^ (32 - prefixlen(s)))

\* IPv4Network(subnet, strict=True) returns a network (no ValueError)
IPv4NetworkOk(s) == IsParsable(s) /\ HostBits(s) = 0

\* list(network): every address of the network, its first and last included
hostsAll(net, plen) == [i \in 1..(2 ^ (32 - plen)) |-> net + i - 1]

\* network.hosts(): the addresses between network and broadcast address
\* (both addresses of a /31, the single address of a /32)
hosts(net, plen) ==
    IF plen = 32 THEN <<net>>
    ELSE IF plen = 31 THEN <<net, net + 1>>
    ELSE [i \in 1..((2 ^ (32 - plen)) - 2) |-> net + i]

\* str(ip): the dotted quad of a 32-bit value
str(ip) ==
    <<ip \div 16777216, (ip \div 65536) % 256, (ip \div 256) % 256, ip % 256>>

\* ------------------------------------------------------------ pure functions
\* a check that clamps to the nearest bound instead of defaulting to 1
check_retries_clamp(r) == IF r < 1 THEN 1 ELSE IF r > 3 THEN 3 ELSE r

check_retries(r) == IF ~(1 <= r /\ r <= 3) THEN 1 ELSE r

validate_subnet(s) ==
    IF IPv4NetworkOk(s)
    THEN (IF prefixlen(s) # CIDR THEN FALSE ELSE TRUE)
    ELSE FALSE

\* a filter that takes the ignore entries modulo 256
KeepIpWrapped(ip, ignore_list) == (ip % 256) \notin {o % 256 : o \in Range(ignore_list)}

\* ip.packed[-1] not in ignore_list
KeepIp(ip, ignore_list) == (ip % 256) \notin Range(ignore_list)

validate_ignore_list(s, ignore_list) ==
    LET subnet_ips == hosts(AddrInt(s.octets), prefixlen(s))
        kept == SelectSeq(subnet_ips, LAMBDA ip : KeepIp(ip, ignore_list))
    IN  [i \in 1..Len(kept) |-> str(kept[i])]

\* -------------------------------------------------------------------- state
VARIABLES
    subnet1, subnet2,  \* main's subnet arguments
    retries,           \* main's retries argument, then the checked value
    ignore_list,       \* main's ignore_list argument
    prober,            \* how the ping command answers: "any" or "fake"
    pc,                \* control point of the thread running main
    exit_status,       \* status given to sys.exit (0: not called)
    ips,               \* <<ips_subnet1, ips_subnet2>>
    sched,             \* per subnet: control point of its ping_subnet call
    submitted,         \* per subnet: futures created by executor.submit
    queue,             \* per subnet: work queue of the executor (task indices)
    task,              \* per subnet: one ping_ip call per address
    results,           \* per subnet: the results dict of ping_subnet
    progress,          \* per subnet: iterations of the as_completed loop (tqdm)
    results_subnet,    \* <<results_subnet1, results_subnet2>> of ping_both_subnets
    unique_pingable    \* the list main returns

vars ==
    <<subnet1, subnet2, retries, ignore_list, prober, pc, exit_status, ips,
      sched, submitted, queue, task, results, progress, results_subnet,
      unique_pingable>>

Scheds == 1..2

\* a dict is a function from its keys
EmptyDict == [k \in {} |-> FALSE]

\* a dict assignment that drops the entries written before
DictSetReplace(d, k, v) == [a \in {k} |-> v]

\* d[k] = v
DictSet(d, k, v) == [a \in (DOMAIN d) \cup {k} |-> IF a = k THEN v ELSE d[a]]

\* a ping_ip call that has not been submitted yet: st is the state of its
\* future, attempt the loop variable, last the outcome of the latest ping
\* command, ok the verdict returned, yielded whether as_completed gave it out
NewTask ==
    [st |-> "none", attempt |-> 0, last |-> "none", ok |-> FALSE, yielded |-> FALSE]

NewTasks(addrs) == [i \in 1..Len(addrs) |-> NewTask]

Tasks(s) == 1..Len(ips[s])

Running(s) == {i \in Tasks(s) : task[s][i].st = "running"}

\* ------------------------------------------------------------------- prober
\* the answer of a "fake" ping: a fixed function of the address
FakeOutcome(ip) ==
    IF ip[4] = 1 THEN "raise"
    ELSE IF ip[4] % 2 = 0 THEN "reply" ELSE "noreply"

\* what subprocess.run(["ping", "-c", "1", ip_addr]) can do: exit 0 ("reply"),
\* exit non-zero ("noreply") or raise
Outcomes(ip) ==
    IF prober = "any" THEN {"reply", "noreply", "raise"} ELSE {FakeOutcome(ip)}

\* --------------------------------------------------------------------- Init
SchedInit ==
    /\ submitted = [s \in Scheds |-> 0]
    /\ queue = [s \in Scheds |-> <<>>]
    /\ results = [s \in Scheds |-> EmptyDict]
    /\ progress = [s \in Scheds |-> 0]
    /\ results_subnet = [s \in Scheds |-> EmptyDict]
    /\ unique_pingable = <<>>
    /\ exit_status = 0

\* a call of main(subnet1, subnet2, retries, ignore_list)
Init ==
    /\ subnet1 \in SubnetArgs
    /\ subnet2 \in SubnetArgs
    /\ retries \in RetryArgs
    /\ ignore_list \in IgnoreArgs
    /\ prober = "any"
    /\ pc = "check_retries"
    /\ ips = <<<<>>, <<>>>>
    /\ task = [s \in Scheds |-> <<>>]
    /\ sched = [s \in Scheds |-> "idle"]
    /\ SchedInit

\* ------------------------------------------------------------------ main
CheckRetries ==
    /\ pc = "check_retries"
    /\ retries' = check_retries(retries)
    /\ pc' = "validate"
    /\ UNCHANGED <<subnet1, subnet2, ignore_list, prober, exit_status, ips,
                   sched, submitted, queue, task, results, progress,
                   results_subnet, unique_pingable>>

\* only the first subnet is validated
SubnetsRejectedFirstOnly(s1, s2) == ~validate_subnet(s1)

\* not validate_subnet(subnet1) or not validate_subnet(subnet2)
SubnetsRejected(s1, s2) == ~validate_subnet(s1) \/ ~validate_subnet(s2)

ValidateSubnets ==
    /\ pc = "validate"
    /\ IF SubnetsRejected(subnet1, subnet2)
       THEN pc' = "exited" /\ exit_status' = 1
       ELSE pc' = "build" /\ exit_status' = exit_status
    /\ UNCHANGED <<subnet1, subnet2, retries, ignore_list, prober, ips,
                   sched, submitted, queue, task, results, progress,
                   results_subnet, unique_pingable>>

BuildAddressLists ==
    /\ pc = "build"
    /\ ips' = <<validate_ignore_list(subnet1, ignore_list),
                validate_ignore_list(subnet2, ignore_list)>>
    /\ task' = [s \in Scheds |-> NewTasks(ips'[s])]
    /\ pc' = "coord_submit1"
    /\ UNCHANGED <<subnet1, subnet2, retries, ignore_list, prober, exit_status,
                   sched, submitted, queue, results, progress,
                   results_subnet, unique_pingable>>

\* an attempt whose exception is not caught: the future holds the exception
PingAttemptPropagates(t, o, r) ==
    IF o = "raise"
    THEN [t EXCEPT !.attempt = 0, !.last = o, !.st = "error"]
    ELSE [t EXCEPT !.attempt = 0, !.last = o, !.st = "done", !.ok = (o = "reply")]

\* a loop that goes round once more than range(retries+1)
PingAttemptOneMore(t, o, r) ==
    IF o = "raise"
    THEN IF t.attempt + 1 < r + 2
         THEN [t EXCEPT !.attempt = @ + 1, !.last = o]
         ELSE [t EXCEPT !.attempt = 0, !.last = o, !.st = "done", !.ok = FALSE]
    ELSE [t EXCEPT !.attempt = 0, !.last = o, !.st = "done", !.ok = (o = "reply")]

\* ------------------------------------------------------------------ ping_ip
\* one iteration of "for attempt in range(retries+1)": the ping command is run
\* with outcome o; a completed run returns at once, an exception goes on to
\* the next iteration, and the exhausted loop returns (ip_addr, False);
\* attempt is the loop variable, gone when ping_ip returns
PingAttempt(t, o, r) ==
    IF o = "raise"
    THEN IF t.attempt + 1 < r + 1
         THEN [t EXCEPT !.attempt = @ + 1, !.last = o]
         ELSE [t EXCEPT !.attempt = 0, !.last = o, !.st = "done", !.ok = FALSE]
    ELSE [t EXCEPT !.attempt = 0, !.last = o, !.st = "done", !.ok = (o = "reply")]

\* ping_ip is entered: an empty range returns (ip_addr, False) at once
PingEnter(t, r) ==
    IF r + 1 > 0
    THEN [t EXCEPT !.st = "running"]
    ELSE [t EXCEPT !.st = "done", !.ok = FALSE]

\* -------------------------------------------------------------- ping_subnet
\* a pool that starts a thread for every work item
WorkerAlwaysFree(s) == TRUE

\* a pool none of whose worker threads ever takes a work item
WorkerNoneFree(s) == FALSE

\* a worker thread of the pool is free to take the next work item
WorkerFree(s) == Cardinality(Running(s)) < max_workers

\* a collecting loop that ends with the first future
AsCompletedFirst(s) == Tasks(s) = {} \/ \E i \in Tasks(s) : task[s][i].yielded

\* as_completed has yielded every future of future_to_ip
AsCompletedExhausted(s) == \A i \in Tasks(s) : task[s][i].yielded

\* shutdown(wait=True) of the pool: every worker thread has ended
PoolJoined(s) == queue[s] = <<>> /\ Running(s) = {}

\* a worker of ping_both_subnets' pool enters ping_subnet: results = {}
SchedBegin(s) ==
    /\ sched[s] = "queued"
    /\ results' = [results EXCEPT ![s] = EmptyDict]
    /\ sched' = [sched EXCEPT ![s] = IF Len(ips[s]) = 0 THEN "collect" ELSE "submit"]
    /\ UNCHANGED <<subnet1, subnet2, retries, ignore_list, prober, pc,
                   exit_status, ips, submitted, queue, task, progress,
                   results_subnet, unique_pingable>>

\* executor.submit(ping_ip, ip_addr, retries) for the next address
Submit(s) ==
    /\ sched[s] = "submit"
    /\ submitted[s] < Len(ips[s])
    /\ LET i == submitted[s] + 1
       IN  /\ submitted' = [submitted EXCEPT ![s] = i]
           /\ queue' = [queue EXCEPT ![s] = Append(@, i)]
           /\ task' = [task EXCEPT ![s][i].st = "queued"]
           /\ sched' = [sched EXCEPT ![s] =
                           IF i = Len(ips[s]) THEN "collect" ELSE "submit"]
    /\ UNCHANGED <<subnet1, subnet2, retries, ignore_list, prober, pc,
                   exit_status, ips, results, progress, results_subnet,
                   unique_pingable>>

\* executor.submit raises (no thread can be started): the with block is left
SubmitFail(s) ==
    /\ sched[s] = "submit"
    /\ submitted[s] < Len(ips[s])
    /\ sched' = [sched EXCEPT ![s] = "unwind"]
    /\ UNCHANGED <<subnet1, subnet2, retries, ignore_list, prober, pc,
                   exit_status, ips, submitted, queue, task, results, progress,
                   results_subnet, unique_pingable>>

\* a free worker takes the oldest work item and enters ping_ip
StartTask(s) ==
    /\ queue[s] # <<>>
    /\ WorkerFree(s)
    /\ LET i == Head(queue[s])
       IN  task' = [task EXCEPT ![s][i] = PingEnter(@, retries)]
    /\ queue' = [queue EXCEPT ![s] = Tail(@)]
    /\ UNCHANGED <<subnet1, subnet2, retries, ignore_list, prober, pc,
                   exit_status, ips, sched, submitted, results, progress,
                   results_subnet, unique_pingable>>

\* one ping attempt of a running ping_ip call
Attempt(s, i) ==
    /\ task[s][i].st = "running"
    /\ \E o \in Outcomes(ips[s][i]) :
           task' = [task EXCEPT ![s][i] = PingAttempt(@, o, retries)]
    /\ UNCHANGED <<subnet1, subnet2, retries, ignore_list, prober, pc,
                   exit_status, ips, sched, submitted, queue, results,
                   progress, results_subnet, unique_pingable>>

\* a loop that keys each verdict by the order of completion
CollectKeyByOrder(s, i) == ips[s][progress[s] + 1]

\* the ip_addr that future.result() hands back with the verdict of task i
CollectKey(s, i) == ips[s][i]

\* one iteration of the as_completed loop: future.result(), results[ip] = success
Collect(s) ==
    /\ sched[s] = "collect"
    /\ \E i \in Tasks(s) :
           /\ task[s][i].st \in {"done", "error"}
           /\ ~task[s][i].yielded
           /\ task' = [task EXCEPT ![s][i].yielded = TRUE]
           /\ progress' = [progress EXCEPT ![s] = @ + 1]
           /\ IF task[s][i].st = "error"
              THEN /\ sched' = [sched EXCEPT ![s] = "unwind"]
                   /\ results' = results
              ELSE /\ sched' = sched
                   /\ results' = [results EXCEPT ![s] =
                                     DictSet(@, CollectKey(s, i), task[s][i].ok)]
    /\ UNCHANGED <<subnet1, subnet2, retries, ignore_list, prober, pc,
                   exit_status, ips, submitted, queue, results_subnet,
                   unique_pingable>>

\* the with block is left (shutdown(wait=True)); ping_subnet returns results,
\* or the exception that left the block goes on
ExitPool(s) ==
    /\ \/ sched[s] = "collect" /\ AsCompletedExhausted(s)
       \/ sched[s] = "unwind"
    /\ PoolJoined(s)
    /\ sched' = [sched EXCEPT ![s] = IF @ = "unwind" THEN "raised" ELSE "returned"]
    /\ UNCHANGED <<subnet1, subnet2, retries, ignore_list, prober, pc,
                   exit_status, ips, submitted, queue, task, results, progress,
                   results_subnet, unique_pingable>>

PoolNext ==
    \E s \in Scheds :
        \/ SchedBegin(s)
        \/ Submit(s)
        \/ SubmitFail(s)
        \/ StartTask(s)
        \/ \E i \in Tasks(s) : Attempt(s, i)
        \/ Collect(s)
        \/ ExitPool(s)

\* -------------------------------------------------------- ping_both_subnets
SubmitPc(s) == IF s = 1 THEN "coord_submit1" ELSE "coord_submit2"

ResultPc(s) == IF s = 1 THEN "coord_result1" ELSE "coord_result2"

\* a result taken from a call that has not ended
FutureNotAwaited(s) == sched[s] # "idle"

\* the future of a ping_subnet call holds a result or an exception
FutureDone(s) == sched[s] \in {"returned", "raised"}

\* a coordinator that takes a failed call's map as it stands
FutureNeverRaised(s) == FALSE

\* the future of a ping_subnet call holds an exception
FutureRaised(s) == sched[s] = "raised"

\* the pair filled with the two maps the wrong way round
FutureValueOther(s) == results[3 - s]

\* what future_subnet.result() returns: the map its ping_subnet call returned
FutureValue(s) == results[s]

\* shutdown(wait=True) of the two-worker pool
CoordJoined == \A s \in Scheds : sched[s] \in {"idle", "returned", "raised"}

\* executor.submit(ping_subnet, ips, retries)
CoordSubmit(s) ==
    /\ pc = SubmitPc(s)
    /\ sched' = [sched EXCEPT ![s] = "queued"]
    /\ pc' = IF s = 1 THEN SubmitPc(2) ELSE ResultPc(1)
    /\ UNCHANGED <<subnet1, subnet2, retries, ignore_list, prober, exit_status,
                   ips, submitted, queue, task, results, progress,
                   results_subnet, unique_pingable>>

\* future_subnet.result(): the map, or the call's exception raised again
CoordResult(s) ==
    /\ pc = ResultPc(s)
    /\ FutureDone(s)
    /\ IF FutureRaised(s)
       THEN /\ pc' = "coord_unwind"
            /\ results_subnet' = results_subnet
       ELSE /\ pc' = IF s = 1 THEN ResultPc(2) ELSE "coord_exit"
            /\ results_subnet' = [results_subnet EXCEPT ![s] = FutureValue(s)]
    /\ UNCHANGED <<subnet1, subnet2, retries, ignore_list, prober, exit_status,
                   ips, sched, submitted, queue, task, results, progress,
                   unique_pingable>>

\* the with block is left: the pair is returned, or the exception goes on
\* through main
CoordExit ==
    /\ pc \in {"coord_exit", "coord_unwind"}
    /\ CoordJoined
    /\ pc' = IF pc = "coord_unwind" THEN "raised" ELSE "reduce"
    /\ UNCHANGED <<subnet1, subnet2, retries, ignore_list, prober, exit_status,
                   ips, sched, submitted, queue, task, results, progress,
                   results_subnet, unique_pingable>>

\* ------------------------------------------------------------ main, reducing
\* the dict literal {k1: v1, k2: v2}
Dict2(k1, v1, k2, v2) == DictSet(DictSet(EmptyDict, k1, v1), k2, v2)

Min(a, b) == IF a < b THEN a ELSE b

\* a pairing that leaves out the last pair
ZipLenShort(ips1, ips2) == Min(Len(ips1), Len(ips2)) - 1

\* the number of pairs zip(ips_subnet1, ips_subnet2) yields
ZipLen(ips1, ips2) == Min(Len(ips1), Len(ips2))

\* the loop over zip(ips_subnet1, ips_subnet2), from position i on
RECURSIVE FindUnique(_, _, _, _, _)
FindUnique(i, ips1, ips2, r1, r2) ==
    IF i > ZipLen(ips1, ips2) THEN <<>>
    ELSE LET ip1 == ips1[i]
             ip2 == ips2[i]
             ping1 == r1[ip1]
             ping2 == r2[ip2]
             rest == FindUnique(i + 1, ips1, ips2, r1, r2)
         IN  IF ping1 /\ ~ping2 THEN <<Dict2(ip1, TRUE, ip2, FALSE)>> \o rest
             ELSE IF ping2 /\ ~ping1 THEN <<Dict2(ip1, FALSE, ip2, TRUE)>> \o rest
             ELSE rest

\* results_subnet1[ip1] and results_subnet2[ip2] raise no KeyError
KeysPresent ==
    \A i \in 1..Min(Len(ips[1]), Len(ips[2])) :
        ips[1][i] \in DOMAIN results_subnet[1] /\ ips[2][i] \in DOMAIN results_subnet[2]

Reduce ==
    /\ pc = "reduce"
    /\ IF KeysPresent
       THEN /\ unique_pingable' =
                   FindUnique(1, ips[1], ips[2], results_subnet[1], results_subnet[2])
            /\ pc' = "done"
       ELSE /\ unique_pingable' = unique_pingable
            /\ pc' = "raised"
    /\ UNCHANGED <<subnet1, subnet2, retries, ignore_list, prober, exit_status,
                   ips, sched, submitted, queue, task, results, progress,
                   results_subnet>>

MainNext ==
    \/ CheckRetries
    \/ ValidateSubnets
    \/ BuildAddressLists
    \/ \E s \in Scheds : CoordSubmit(s)
    \/ \E s \in Scheds : CoordResult(s)
    \/ CoordExit
    \/ Reduce

Next == MainNext \/ PoolNext

Spec == Init /\ [][Next]_vars

\* a run of main in which a thread that can take a step is in the end scheduled
\* and every ping that was started ends: the run does not stop while a step of
\* main, of a ping_subnet call or of a ping_ip call is possible
FairSpec == Spec /\ WF_vars(Next)

\* ---------------------------------------------- ping_subnet called directly
\* the first n hosts of 10.0.1.0/28
PoolIps(n) == SubSeq(validate_ignore_list(SubnetArg(<<10, 0, 1, 0>>, TRUE, 28), <<>>), 1, n)

\* ping_subnet(ips, 1) with a fake ping command, over no address, one address,
\* as many addresses as the pool has workers, and more than that
InitPool ==
    /\ subnet1 = SubnetA
    /\ subnet2 = SubnetA
    /\ retries = 1
    /\ ignore_list = <<>>
    /\ prober = "fake"
    /\ pc = "pool"
    /\ \E n \in {0, 1, max_workers, MaxPoolIps} : ips = <<PoolIps(n), <<>>>>
    /\ task = [s \in Scheds |-> NewTasks(ips[s])]
    /\ SchedInit
    /\ sched = [s \in Scheds |-> IF s = 1 THEN "queued" ELSE "idle"]

SpecPool == InitPool /\ [][PoolNext]_vars

\* ------------------------------------- validate_ignore_list called directly
\* networks of several sizes, as the tests hand them to validate_ignore_list
ListSubnets ==
    {SubnetA, SubnetB, SubnetArg(<<10, 0, 1, 16>>, TRUE, 28),
     SubnetArg(<<10, 0, 2, 0>>, TRUE, 24)}

\* ignore lists with entries inside and outside 0..255
ListIgnores == {<<>>, <<1>>, <<2, 256>>, <<25, 27>>, <<25, 280>>, <<0 - 1, 17, 30>>}

\* the two validate_ignore_list calls of main, on any network and ignore list
InitLists ==
    /\ subnet1 \in ListSubnets
    /\ subnet2 \in ListSubnets
    /\ retries = 1
    /\ ignore_list \in ListIgnores
    /\ prober = "any"
    /\ pc = "build"
    /\ ips = <<<<>>, <<>>>>
    /\ task = [s \in Scheds |-> <<>>]
    /\ sched = [s \in Scheds |-> "idle"]
    /\ SchedInit

SpecLists == InitLists /\ [][BuildAddressLists]_vars

\* =================================================================== claims
Started(s) == \E i \in Tasks(s) : task[s][i].st # "none"

\* C1: ping_ip gives the verdict False only after retries+1 failed attempts:
\* whenever a running call ends with verdict False, the attempt that ended it
\* was attempt number retries+1.
C1_FalseOnlyAfterBudget ==
    [][\A s \in Scheds : \A i \in Tasks(s) :
          (task[s][i].st = "running" /\ task'[s][i].st = "done" /\ ~task'[s][i].ok)
              => task[s][i].attempt + 1 = retries + 1]_vars

\* C2: the result map of ping_subnet never holds a key that is no input
\* address, every iteration of the collecting loop writes a key that was not
\* there yet, and the returned map has exactly one entry per input address.
C2_ResultMapExact ==
    \A s \in Scheds :
        /\ DOMAIN results[s] \subseteq Range(ips[s])
        /\ Cardinality(DOMAIN results[s]) = progress[s]
        /\ sched[s] = "returned" =>
               /\ DOMAIN results[s] = Range(ips[s])
               /\ Cardinality(DOMAIN results[s]) = Len(ips[s])

\* ping_subnet returned a map for a list longer than the pool has workers
C2_Witness ==
    /\ sched[1] = "returned"
    /\ Len(ips[1]) > max_workers
    /\ Cardinality(DOMAIN results[1]) = Len(ips[1])

\* positions of the zipped lists whose two verdicts differ
Differing ==
    {i \in 1..Min(Len(ips[1]), Len(ips[2])) :
        results_subnet[1][ips[1][i]] # results_subnet[2][ips[2][i]]}

\* the k-th smallest member of a set of positions
Kth(D, k) == CHOOSE i \in D : Cardinality({j \in D : j < i}) = k - 1

\* C3: the report returned by main has one record per position whose two
\* verdicts differ, in ascending position order, and the record gives the
\* address of subnet 1 with its verdict and the address of subnet 2 with its
\* verdict.
C3_ReportIsDifferingPositions ==
    pc = "done" =>
        /\ Len(unique_pingable) = Cardinality(Differing)
        /\ \A k \in 1..Len(unique_pingable) :
               LET i == Kth(Differing, k)
                   ip1 == ips[1][i]
                   ip2 == ips[2][i]
                   rec == unique_pingable[k]
               IN  /\ DOMAIN rec = {ip1, ip2}
                   /\ rec[ip1] = results_subnet[1][ip1]
                   /\ rec[ip2] = results_subnet[2][ip2]

\* C4: validate_subnet accepts exactly the well-formed networks with prefix
\* length 24 and no host bits set.
C4_ValidateSubnetAccepts24Only ==
    \A s \in {subnet1, subnet2} :
        validate_subnet(s) =
            (IsParsable(s) /\ s.hasPrefix /\ s.prefix = 24 /\ HostBits(s) = 0)

\* malformed, wrong prefix length for the configured CIDR, or host bits set
InvalidSubnet(s) == ~IsParsable(s) \/ prefixlen(s) # CIDR \/ HostBits(s) # 0

\* C5: with an invalid subnet argument main ends by sys.exit with a non-zero
\* status before anything is probed: no ping_subnet call and no ping is ever
\* started, and no report is returned.
C5_InvalidSubnetFailsFast ==
    (InvalidSubnet(subnet1) \/ InvalidSubnet(subnet2)) =>
        /\ pc \in {"check_retries", "validate", "exited"}
        /\ pc = "exited" => exit_status # 0
        /\ \A s \in Scheds : sched[s] = "idle" /\ ~Started(s) /\ results[s] = EmptyDict
        /\ unique_pingable = <<>>

\* main has exited although its first subnet is valid
C5_Witness ==
    /\ pc = "exited"
    /\ exit_status = 1
    /\ ~InvalidSubnet(subnet1)
    /\ InvalidSubnet(subnet2)

\* C6: an exception of a ping attempt stays inside ping_ip: no future ever
\* holds an exception, a call whose attempt raised goes on with the next
\* attempt, a call whose last attempt raised returns False, a ping_subnet call
\* fails only when a submit failed, and the returned map gives every address
\* the verdict of its own call.
C6_ProbeExceptionAbsorbed ==
    /\ \A s \in Scheds : \A i \in Tasks(s) :
           /\ task[s][i].st # "error"
           /\ task[s][i].st = "running" =>
                  /\ task[s][i].attempt <= retries
                  /\ task[s][i].attempt > 0 => task[s][i].last = "raise"
           /\ (task[s][i].st = "done" /\ task[s][i].last = "raise") => ~task[s][i].ok
    /\ \A s \in Scheds :
           /\ sched[s] \in {"unwind", "raised"} => submitted[s] < Len(ips[s])
           /\ sched[s] = "returned" =>
                  \A i \in Tasks(s) :
                      /\ ips[s][i] \in DOMAIN results[s]
                      /\ results[s][ips[s][i]] = task[s][i].ok

\* every attempt for the first address of subnet 1 raised, its verdict is
\* False, and the second address still got the verdict True
C6_Witness ==
    /\ sched[1] = "returned"
    /\ Len(ips[1]) = 2
    /\ task[1][1].last = "raise"
    /\ results[1][ips[1][1]] = FALSE
    /\ results[1][ips[1][2]] = TRUE

\* C7: when ping_subnet returns, every ping_ip call it submitted has ended and
\* been collected, nothing is queued or running, and the map has an entry for
\* every address.
C7_ReturnsAfterAllTasks ==
    \A s \in Scheds :
        sched[s] = "returned" =>
            /\ queue[s] = <<>>
            /\ \A i \in Tasks(s) : task[s][i].st = "done" /\ task[s][i].yielded
            /\ progress[s] = Len(ips[s])
            /\ \A i \in Tasks(s) : ips[s][i] \in DOMAIN results[s]

\* ping_subnet returned after more calls than the pool has workers
C7_Witness ==
    /\ sched[1] = "returned"
    /\ Len(ips[1]) > max_workers
    /\ progress[1] = Len(ips[1])

\* C8: at most max_workers ping_ip calls of one ping_subnet run at a time.
C8_AtMostMaxWorkersRunning ==
    \A s \in Scheds : Cardinality(Running(s)) <= max_workers

\* all workers are busy and a submitted call waits in the queue
C8_Witness ==
    /\ Cardinality(Running(1)) = max_workers
    /\ queue[1] # <<>>
    /\ task[1][Head(queue[1])].st = "queued"

\* C9: when ping_both_subnets has returned its pair, both ping_subnet calls
\* have returned, none of their ping_ip calls is queued or running, and the
\* pair holds the two complete maps; when it has raised, no ping_subnet call
\* and no ping_ip call is still going either.
C9_ReturnsAfterBothSchedulers ==
    /\ pc \in {"reduce", "done"} =>
           \A s \in Scheds :
               /\ sched[s] = "returned"
               /\ PoolJoined(s)
               /\ results_subnet[s] = results[s]
               /\ DOMAIN results_subnet[s] = Range(ips[s])
    /\ pc = "raised" =>
           \A s \in Scheds : sched[s] \in {"returned", "raised"} /\ PoolJoined(s)

\* the pair has been returned for two lists of two addresses
C9_Witness ==
    /\ pc = "reduce"
    /\ Len(ips[1]) = 2
    /\ Len(ips[2]) = 2
    /\ Cardinality(DOMAIN results_subnet[2]) = 2

\* C10: once a ping_subnet call has failed, ping_both_subnets never returns a
\* pair and main returns no report; when nothing can run any more, main has
\* ended by that exception.
C10_SchedulerFailureIsFatal ==
    (\E s \in Scheds : sched[s] \in {"unwind", "raised"}) =>
        /\ pc \notin {"reduce", "done"}
        /\ unique_pingable = <<>>
        /\ ~(ENABLED Next) => pc = "raised"

\* subnet 1 was pinged completely, subnet 2 failed, and main has raised
C10_Witness ==
    /\ pc = "raised"
    /\ sched[1] = "returned"
    /\ Len(ips[1]) = 2
    /\ sched[2] = "raised"

\* C11: the pair ping_both_subnets returns does not depend on which
\* ping_subnet call ended first: its first map gives every address of subnet 1
\* the verdict of that address's own ping_ip call, its second map does so for
\* subnet 2, and neither map has any other key.  (That the two calls overlap
\* and that either can end first are the reachable states C11_Witness and
\* C11_FirstEndsFirst.)
C11_PairIndependentOfOrder ==
    pc \in {"reduce", "done"} =>
        \A s \in Scheds :
            /\ DOMAIN results_subnet[s] = Range(ips[s])
            /\ \A i \in Tasks(s) : results_subnet[s][ips[s][i]] = task[s][i].ok

\* the call for subnet 2 has returned while a ping of subnet 1 is still running
C11_Witness ==
    /\ sched[2] = "returned"
    /\ Len(ips[2]) = 2
    /\ Running(1) # {}

\* the call for subnet 1 has returned while a ping of subnet 2 is still running
C11_FirstEndsFirst ==
    /\ sched[1] = "returned"
    /\ Len(ips[1]) = 2
    /\ Running(2) # {}

\* pings of both subnets are running at the same time
C11_BothInFlight == Running(1) # {} /\ Running(2) # {}

\* the subnet argument whose addresses ips[s] holds
SubnetOf(s) == IF s = 1 THEN subnet1 ELSE subnet2

\* the address lists have been built
ListsBuilt == pc \notin {"check_retries", "validate", "build", "exited"}

\* the 32-bit values strictly between the network address and the broadcast
\* address of subnet s whose last octet is not in the ignore list L
WantedHosts(s, L) ==
    LET net == AddrInt(s.octets)
        size == 2 ^ (32 - prefixlen(s))
    IN  {v \in (net + 1)..(net + size - 2) : (v % 256) \notin Range(L)}

IsDottedQuad(a) == Len(a) = 4 /\ \A k \in 1..4 : a[k] \in 0..255

InOctetRange(L) == SelectSeq(L, LAMBDA o : o \in 0..255)

\* C13: no address returned by validate_ignore_list has a last octet that is
\* in the ignore list, and the result is the result for the ignore list
\* without its entries outside 0..255; such entries stop nothing.
C13_OutOfRangeEntriesHaveNoEffect ==
    /\ pc # "raised"
    /\ ListsBuilt =>
           \A s \in Scheds :
               /\ \A i \in 1..Len(ips[s]) : ips[s][i][4] \notin Range(ignore_list)
               /\ ips[s] = validate_ignore_list(SubnetOf(s), InOctetRange(ignore_list))

\* a list built with the ignore list [25, 280]: .25 is gone, .24 is kept
C13_Witness ==
    /\ ListsBuilt
    /\ ignore_list = <<25, 280>>
    /\ prefixlen(subnet1) = 24
    /\ Len(ips[1]) = 253
    /\ ips[1][24] = <<10, 0, 2, 24>>

\* C14: check_retries hands back 1, 2 and 3 unchanged and 1 for every other
\* integer, and main goes on either way: the step that checks the retries
\* argument leaves retries as that value and reaches the subnet validation.
C14_CheckRetriesCoerces ==
    [][pc = "check_retries" =>
          /\ pc' = "validate"
          /\ retries' = (IF retries \in {1, 2, 3} THEN retries ELSE 1)]_vars

\* the retries argument 3 has passed the check unchanged
C14_Witness == pc = "validate" /\ retries = 3

\* the positions both address lists have
Paired == {i \in DOMAIN ips[1] : i \in DOMAIN ips[2]}

\* the positions only the longer address list has
Unpaired(s) == DOMAIN ips[s] \ Paired

\* C15: when the two address lists differ in length, main's reduction goes
\* over exactly the positions both lists have: the report has one record per
\* such position with differing verdicts and every record is about such a
\* position, no record names an address of the longer list's tail, and the
\* reduction raises nothing (main ends by an exception only if a ping_subnet
\* call did).
C15_ReductionOverShorterLength ==
    Len(ips[1]) # Len(ips[2]) =>
        /\ pc = "done" =>
               /\ Len(unique_pingable) =
                      Cardinality({i \in Paired : results_subnet[1][ips[1][i]]
                                                  # results_subnet[2][ips[2][i]]})
               /\ \A k \in DOMAIN unique_pingable :
                      /\ \E i \in Paired :
                             DOMAIN unique_pingable[k] = {ips[1][i], ips[2][i]}
                      /\ \A s \in Scheds : \A j \in Unpaired(s) :
                             ips[s][j] \notin DOMAIN unique_pingable[k]
        /\ pc = "raised" => \E s \in Scheds : sched[s] = "raised"

\* main has returned a report with a record although one list was longer
C15_Witness ==
    /\ pc = "done"
    /\ Len(ips[1]) > Len(ips[2])
    /\ Len(ips[2]) > 0
    /\ Len(unique_pingable) = Len(ips[2])

\* the verdict of the fake ping for an address: TRUE exactly if it replies
FakeVerdict(ip) == FakeOutcome(ip) = "reply"

\* C16: with a deterministic prober the result map of ping_subnet depends on
\* the address list alone: in whatever order the pings complete, every entry
\* written is the prober's verdict for its address, and the returned map is
\* the map from each input address to the prober's verdict for it.
C16_ResultMapIsProberVerdicts ==
    prober = "fake" =>
        /\ \A a \in DOMAIN results[1] : results[1][a] = FakeVerdict(a)
        /\ sched[1] = "returned" =>
               results[1] = [a \in Range(ips[1]) |-> FakeVerdict(a)]

\* ping_subnet returned a map holding both verdicts for a list longer than the
\* pool has workers
C16_Witness ==
    /\ prober = "fake"
    /\ sched[1] = "returned"
    /\ Len(ips[1]) > max_workers
    /\ \E a, b \in DOMAIN results[1] : results[1][a] /\ ~results[1][b]

\* C17: every record of the report returned by main names two addresses, one
\* of subnet 1 and one of subnet 2, each with its verdict, and exactly one of
\* the two verdicts is true, whichever two valid subnets were given.
C17_RecordPairsTwoAddresses ==
    pc = "done" =>
        \A k \in DOMAIN unique_pingable :
            LET rec == unique_pingable[k]
            IN  /\ Cardinality(DOMAIN rec) = 2
                /\ \E a \in Range(ips[1]) : \E b \in Range(ips[2]) :
                       /\ DOMAIN rec = {a, b}
                       /\ rec[a] = results_subnet[1][a]
                       /\ rec[b] = results_subnet[2][b]
                       /\ rec[a] # rec[b]

\* both subnet arguments pass validate_subnet
ValidSubnets == ~InvalidSubnet(subnet1) /\ ~InvalidSubnet(subnet2)

C19_ListsCorrespond ==
    ListsBuilt =>
        /\ Len(ips[1]) = Len(ips[2])
        /\ \A i \in DOMAIN ips[1] : \A j \in DOMAIN ips[2] :
               i = j => ips[1][i][4] = ips[2][j][4]

\* the step runs the ping command for address i of subnet s
IsAttempt(s, i) == task[s][i].st = "running" /\ task'[s][i] # task[s][i]

\* C20: whatever retries argument the caller passed, pings are made with a
\* budget b = retries in 1..3; every ping attempt for an address is at most
\* its (b+1)-th, so never beyond the fourth; an address gets its verdict only
\* by an attempt, so it has had at least one; and once an address has its
\* verdict no further attempt is made for it: verdict and attempt record stay
\* as they are.
C20_AttemptsWithinBudget ==
    [][\A s \in Scheds : \A i \in Tasks(s) :
           /\ IsAttempt(s, i) =>
                  /\ retries \in {1, 2, 3}
                  /\ task[s][i].attempt + 1 <= retries + 1
                  /\ task[s][i].attempt + 1 <= 4
                  /\ task'[s][i].last # "none"
           /\ (task[s][i].st # "done" /\ task'[s][i].st = "done") =>
                  IsAttempt(s, i)
           /\ task[s][i].st = "done" =>
                  /\ task'[s][i].st = "done"
                  /\ task'[s][i].ok = task[s][i].ok
                  /\ task'[s][i].last = task[s][i].last
                  /\ task'[s][i].attempt = task[s][i].attempt]_vars

\* an address got its verdict by the fourth attempt, all four having raised
C20_Witness ==
    /\ retries = 3
    /\ \E s \in Scheds : \E i \in Tasks(s) :
           task[s][i].st = "done" /\ task[s][i].last = "raise"

====
